---------------------------- MODULE Spec2Model ----------------------------
(***************************************************************************)
(* The inline-query pipeline of the dictionary bot: inline_query_handler   *)
(* (src/bot.py), DictionaryService.lookup_word and the renderers           *)
(* (src/dictionary_service.py), and the settings of src/config.py.         *)
(*                                                                         *)
(* One invocation of inline_query_handler is followed from the dispatch of *)
(* its InlineQuery to its end.  The handler keeps no state between         *)
(* queries, so the other invocations appear only as the newer inline       *)
(* queries the user's typing produces while this one runs.  A step of the  *)
(* model is the code between two awaits.                                   *)
(*                                                                         *)
(* Text is a sequence of one-character strings, one element per Python     *)
(* code point; a code point outside ASCII is written "U+XXXX".             *)
(***************************************************************************)
EXTENDS Integers, Sequences, FiniteSets, TLC

VARIABLES
    maxUrbanResults,  \* config.MAX_URBAN_RESULTS
    pc,               \* where the handler is: idle, sleep, dict_wait, urban_wait, done
    query,            \* query.query of the InlineQuery the handler was called with
    text,             \* the handler's local `text`
    latest,           \* query text of the newest inline query the user's typing produced
    newer,            \* how many newer inline queries have arrived
    stale,            \* a newer query with another text arrived during the debounce sleep
    pending,          \* the outbound request the executor thread is blocked in
    response,         \* lookup_word's local `response` (the dictionary API's answer)
    urban_response,   \* lookup_word's local `urban_response` (the slang API's answer)
    trace,            \* the adapter calls made so far, in order
    data,             \* what lookup_word returned to the handler
    outcome,          \* how the handler ended: answered, abandoned, raised
    answer            \* the arguments of query.answer

vars == <<maxUrbanResults, pc, query, text, latest, newer, stale, pending, response,
          urban_response, trace, data, outcome, answer>>

\* Python's None: where the code holds an object or a dict, and where it holds a str
None == [type |-> "none"]
NoneStr == <<"None">>

\* ------------------------------------------------------------------ bounds

MaxNewerQueries == 1
MaxSlang == 21
MaxCap == 20
MaxDefinitionLen == 101
MaxQueryLen == 80

\* ------------------------------------------------------- Python built-ins

Min(a, b) == IF a < b THEN a ELSE b
Max(a, b) == IF a > b THEN a ELSE b

\* s[:n]
SliceTo(s, n) ==
    IF n >= 0 THEN SubSeq(s, 1, Min(n, Len(s)))
    ELSE SubSeq(s, 1, Max(0, Len(s) + n))

\* s[n:] for n >= 0
SliceFrom(s, n) == SubSeq(s, Min(n, Len(s)) + 1, Len(s))

\* the concatenation of a list of strings, by halves
RECURSIVE Concat(_)
Concat(parts) ==
    IF parts = <<>> THEN <<>>
    ELSE IF Len(parts) = 1 THEN parts[1]
    ELSE LET m == Len(parts) \div 2
         IN  Concat(SubSeq(parts, 1, m)) \o Concat(SubSeq(parts, m + 1, Len(parts)))

\* str.replace(old, new) for a one-character old
ReplaceChar(s, old, new) ==
    Concat([i \in 1..Len(s) |-> IF s[i] = old[1] THEN new ELSE <<s[i]>>])

\* str.replace(old, new) for a two-character old: the occurrences are taken
\* from the left and do not overlap, so of a run of overlapping occurrences
\* (old = "//" in "///") every second one is replaced, counting from the first
ReplacePair(s, old, new) ==
    LET occurs(i) == i < Len(s) /\ s[i] = old[1] /\ s[i + 1] = old[2]
        runStart(i) == CHOOSE j \in 1..i :
                           /\ \A k \in j..i : occurs(k)
                           /\ (j = 1 \/ ~occurs(j - 1))
        replaced(i) == occurs(i) /\ (i - runStart(i)) % 2 = 0
    IN  Concat([i \in 1..Len(s) |->
                    IF replaced(i) THEN new
                    ELSE IF i > 1 /\ replaced(i - 1) THEN <<>>
                    ELSE <<s[i]>>])

Whitespace == {" ", "\t", "\n", "\r"}

RECURSIVE LStrip(_, _)
LStrip(s, chars) ==
    IF s /= <<>> /\ Head(s) \in chars THEN LStrip(Tail(s), chars) ELSE s

RECURSIVE RStrip(_, _)
RStrip(s, chars) ==
    IF s /= <<>> /\ s[Len(s)] \in chars THEN RStrip(SubSeq(s, 1, Len(s) - 1), chars) ELSE s

\* str.strip() and str.strip(chars)
StripChars(s, chars) == RStrip(LStrip(s, chars), chars)
Strip(s) == StripChars(s, Whitespace)

UpperLetters ==
    <<"A", "B", "C", "D", "E", "F", "G", "H", "I", "J", "K", "L", "M",
      "N", "O", "P", "Q", "R", "S", "T", "U", "V", "W", "X", "Y", "Z">>
LowerLetters ==
    <<"a", "b", "c", "d", "e", "f", "g", "h", "i", "j", "k", "l", "m",
      "n", "o", "p", "q", "r", "s", "t", "u", "v", "w", "x", "y", "z">>

LowerChar(c) ==
    IF \E i \in 1..26 : UpperLetters[i] = c
    THEN LowerLetters[CHOOSE i \in 1..26 : UpperLetters[i] = c] ELSE c
UpperChar(c) ==
    IF \E i \in 1..26 : LowerLetters[i] = c
    THEN UpperLetters[CHOOSE i \in 1..26 : LowerLetters[i] = c] ELSE c

\* str.lower(), str.upper(), str.capitalize()
Lower(s) == [i \in 1..Len(s) |-> LowerChar(s[i])]
Upper(s) == [i \in 1..Len(s) |-> UpperChar(s[i])]
Capitalize(s) ==
    IF s = <<>> THEN <<>> ELSE <<UpperChar(Head(s))>> \o Lower(Tail(s))

\* sep.join(parts)
RECURSIVE Join(_, _)
Join(parts, sep) ==
    IF parts = <<>> THEN <<>>
    ELSE IF Len(parts) = 1 THEN parts[1]
    ELSE parts[1] \o sep \o Join(Tail(parts), sep)

\* s.split(c) for a one-character separator c
RECURSIVE Split(_, _)
Split(s, c) ==
    IF \E i \in 1..Len(s) : s[i] = c
    THEN LET i == CHOOSE k \in 1..Len(s) : s[k] = c /\ \A j \in 1..(k - 1) : s[j] /= c
         IN  <<SubSeq(s, 1, i - 1)>> \o Split(SliceFrom(s, i), c)
    ELSE <<s>>

Digits == <<"0", "1", "2", "3", "4", "5", "6", "7", "8", "9">>

\* str(n) of a non-negative int, as the f-strings format it
RECURSIVE IntToStr(_)
IntToStr(n) ==
    IF n < 10 THEN <<Digits[n + 1]>> ELSE IntToStr(n \div 10) \o <<Digits[(n % 10) + 1]>>

\* d.get(key, default) and `key in d` of a dict, a record here
Has(d, key) == key \in DOMAIN d
Get(d, key, default) == IF key \in DOMAIN d THEN d[key] ELSE default

\* ------------------------------------------------------ string literals

S_NoDefinitionAvailable ==
    <<"N", "o", " ", "d", "e", "f", "i", "n", "i", "t", "i", "o", "n", " ", "a", "v", "a", "i",
     "l", "a", "b", "l", "e">>
S_Ellipsis ==
    <<".", ".", ".">>
S_HeaderOpen ==
    <<"U+1F4DA", " ", "<", "b", ">">>
S_BoldClose ==
    <<"<", "/", "b", ">">>
S_WordNetTag ==
    <<" ", "(", "W", "o", "r", "d", "N", "e", "t", ")">>
S_PhoneticOpen ==
    <<" ", "U+2022", " ", "/">>
S_Slash ==
    <<"/">>
S_SlashSlash ==
    <<"/", "/">>
S_AudioIcon ==
    <<" ", "U+1F50A">>
S_NL ==
    <<"\n">>
S_NLNL ==
    <<"\n", "\n">>
S_CRNL ==
    <<"\r", "\n">>
S_BoldOpen ==
    <<"<", "b", ">">>
S_BoldCloseColonNL ==
    <<"<", "/", "b", ">", ":", "\n">>
S_DotSpace ==
    <<".", " ">>
S_ExampleLabel ==
    <<" ", " ", " ", "<", "i", ">", "E", "x", "a", "m", "p", "l", "e", ":", "<", "/", "i", ">",
     " ">>
S_SynonymsLabel ==
    <<" ", " ", " ", "<", "b", ">", "S", "y", "n", "o", "n", "y", "m", "s", ":", "<", "/", "b",
     ">", " ">>
S_AntonymsLabel ==
    <<" ", " ", " ", "<", "b", ">", "A", "n", "t", "o", "n", "y", "m", "s", ":", "<", "/", "b",
     ">", " ">>
S_CommaSpace ==
    <<",", " ">>
S_AudioLinkOpen ==
    <<"U+1F50A", " ", "<", "a", " ", "h", "r", "e", "f", "=", "'">>
S_AudioLinkClose ==
    <<"'", ">", "L", "i", "s", "t", "e", "n", " ", "t", "o", " ", "p", "r", "o", "n", "u", "n",
     "c", "i", "a", "t", "i", "o", "n", "<", "/", "a", ">">>
S_EtymologyLabel ==
    <<"<", "b", ">", "E", "t", "y", "m", "o", "l", "o", "g", "y", ":", "<", "/", "b", ">", " ">>
S_BroaderLabel ==
    <<"<", "b", ">", "B", "r", "o", "a", "d", "e", "r", " ", "t", "e", "r", "m", "s", ":", "<",
     "/", "b", ">", " ">>
S_SpecificLabel ==
    <<"<", "b", ">", "M", "o", "r", "e", " ", "s", "p", "e", "c", "i", "f", "i", "c", " ", "t",
     "e", "r", "m", "s", ":", "<", "/", "b", ">", " ">>
S_WordNetHeaderClose ==
    <<"<", "/", "b", ">", " ", "(", "W", "o", "r", "d", "N", "e", "t", ")", "\n", "\n">>
S_Noun ==
    <<"N", "o", "u", "n">>
S_Verb ==
    <<"V", "e", "r", "b">>
S_Adjective ==
    <<"A", "d", "j", "e", "c", "t", "i", "v", "e">>
S_AdjectiveSatellite ==
    <<"A", "d", "j", "e", "c", "t", "i", "v", "e", " ", "S", "a", "t", "e", "l", "l", "i", "t",
     "e">>
S_Adverb ==
    <<"A", "d", "v", "e", "r", "b">>
S_Lt ==
    <<"<">>
S_Gt ==
    <<">">>
S_EscLt ==
    <<"&", "l", "t", ";">>
S_EscGt ==
    <<"&", "g", "t", ";">>
S_LBracket ==
    <<"[">>
S_RBracket ==
    <<"]">>
S_Space ==
    <<" ">>
S_Pct20 ==
    <<"%", "2", "0">>
S_Underscore ==
    <<"_">>
S_Anonymous ==
    <<"A", "n", "o", "n", "y", "m", "o", "u", "s">>
S_UdLinkOpen ==
    <<"<", "a", " ", "h", "r", "e", "f", "=", "\"", "h", "t", "t", "p", "s", ":", "/", "/",
     "w", "w", "w", ".", "u", "r", "b", "a", "n", "d", "i", "c", "t", "i", "o", "n", "a", "r",
     "y", ".", "c", "o", "m", "/", "d", "e", "f", "i", "n", "e", ".", "p", "h", "p", "?", "t",
     "e", "r", "m", "=">>
S_UdLinkMid ==
    <<"\"", ">">>
S_AClose ==
    <<"<", "/", "a", ">">>
S_QuoteOpen ==
    <<"U+1F4AC", " ", "<", "i", ">">>
S_ItalicClose ==
    <<"<", "/", "i", ">">>
S_UrbanHeaderOpen ==
    <<"U+1F3D9", "U+FE0F", " ", "<", "b", ">">>
S_UrbanHeaderMid ==
    <<"<", "/", "b", ">", " ", "(", "U", "r", "b", "a", "n", " ", "#">>
S_UrbanHeaderClose ==
    <<")", "\n", "\n">>
S_UrbanExamplesLabel ==
    <<"<", "b", ">", "U+1F4DD", " ", "E", "x", "a", "m", "p", "l", "e", "s", ":", "<", "/",
     "b", ">", "\n">>
S_ThumbsUp ==
    <<"U+1F44D", " ">>
S_ThumbsDown ==
    <<" ", "|", " ", "U+1F44E", " ">>
S_ByAuthor ==
    <<" ", "|", " ", "U+270D", "U+FE0F", " ", "B", "y", ":", " ">>
S_PermalinkOpen ==
    <<"U+1F517", " ", "<", "a", " ", "h", "r", "e", "f", "=", "'">>
S_PermalinkClose ==
    <<"'", ">", "V", "i", "e", "w", " ", "o", "n", " ", "U", "r", "b", "a", "n", " ", "D", "i",
     "c", "t", "i", "o", "n", "a", "r", "y", "<", "/", "a", ">">>
S_ZeroWidthTail ==
    <<"\n", "U+200B">>
S_TitleBook ==
    <<"U+1F4DA", " ">>
S_TitleDetailedOpen ==
    <<"U+2139", "U+FE0F", " ", "D", "e", "t", "a", "i", "l", "e", "d", " ", "i", "n", "f", "o",
     "r", "m", "a", "t", "i", "o", "n", " ", "f", "o", "r", " ", "'">>
S_Apostrophe ==
    <<"'">>
S_DetailedDescription ==
    <<"V", "i", "e", "w", " ", "a", "l", "l", " ", "m", "e", "a", "n", "i", "n", "g", "s", ",",
     " ", "e", "x", "a", "m", "p", "l", "e", "s", ",", " ", "a", "n", "d", " ", "r", "e", "l",
     "a", "t", "e", "d", " ", "w", "o", "r", "d", "s">>
S_TitleUrban ==
    <<"U+1F3D9", "U+FE0F", " ">>
S_TitleUrbanMid ==
    <<" ", "(", "U", "r", "b", "a", "n", " ", "#">>
S_CloseParen ==
    <<")">>
S_IdUrban ==
    <<"u", "r", "b", "a", "n", "_">>
S_Id1 ==
    <<"1">>
S_Id2 ==
    <<"2">>
S_IdNotFound ==
    <<"n", "o", "t", "_", "f", "o", "u", "n", "d">>
S_TitleNotFound ==
    <<"U+274C", " ", "W", "o", "r", "d", " ", "n", "o", "t", " ", "f", "o", "u", "n", "d">>
S_NotFoundDescOpen ==
    <<"N", "o", " ", "d", "e", "f", "i", "n", "i", "t", "i", "o", "n", " ", "f", "o", "u", "n",
     "d", " ", "f", "o", "r", " ", "'">>
S_NotFoundBodyOpen ==
    <<"U+274C", " ", "N", "o", " ", "d", "e", "f", "i", "n", "i", "t", "i", "o", "n", " ", "f",
     "o", "u", "n", "d", " ", "f", "o", "r", " ", "<", "b", ">">>

\* ------------------------------------------------------------ JSON values

\* A parsed JSON array and a parsed JSON object; a body that is no JSON at all
\* is Unparsable, and response.json() raises on it.
JList(items) == [type |-> "list", items |-> items]
JDict(fields) == [type |-> "dict", fields |-> fields]
Unparsable == [type |-> "unparsable"]

\* isinstance(data, list)
IsList(v) == v.type = "list"

\* urban_data and "list" in urban_data and urban_data["list"]
HasUrbanList(urban_data) ==
    /\ urban_data.type = "dict"
    /\ DOMAIN urban_data.fields /= {}
    /\ Has(urban_data.fields, "list")
    /\ urban_data.fields.list /= <<>>

\* ------------------------------------------------------------- renderers

\* HTML escaping as the source writes it: .replace("<", "&lt;").replace(">", "&gt;")
EscapeAngles(s) == ReplaceChar(ReplaceChar(s, S_Lt, S_EscLt), S_Gt, S_EscGt)

\* A renderer that never shortens the brief text.
Truncate_Never(s) == s

\* if len(x) > 100: x = x[:97] + "..."
Truncate(s) == IF Len(s) > 100 THEN SliceTo(s, 97) \o S_Ellipsis ELSE s

\* the first element of `phonetics` whose `key` is present and non-empty
FirstTruthy(phonetics, key) ==
    LET hit(i) == Has(phonetics[i], key) /\ phonetics[i][key] /= <<>>
    IN  IF \E i \in 1..Len(phonetics) : hit(i)
        THEN phonetics[CHOOSE i \in 1..Len(phonetics) :
                           hit(i) /\ \A j \in 1..(i - 1) : ~hit(j)][key]
        ELSE NoneStr

\* the phonetic the header and the title show
EntryPhonetic(entry) ==
    IF Has(entry, "phonetic") /\ entry.phonetic /= <<>> THEN entry.phonetic
    ELSE FirstTruthy(Get(entry, "phonetics", <<>>), "text")

get_phonetic(d) ==
    IF d = None \/ d.source /= "dictionary" THEN NoneStr
    ELSE IF ~IsList(d.data) \/ Len(d.data.items) = 0 THEN NoneStr
    ELSE EntryPhonetic(d.data.items[1])

\* f" • /{phonetic.strip('/')}/".replace("//", "/")
PhoneticSuffix(phonetic) ==
    ReplacePair(S_PhoneticOpen \o StripChars(phonetic, {"/"}) \o S_Slash,
                S_SlashSlash, S_Slash)

format_brief_definition(d, word) ==
    IF d = None THEN S_NoDefinitionAvailable
    ELSE IF d.source = "dictionary" THEN
        IF ~IsList(d.data) \/ Len(d.data.items) = 0 THEN S_NoDefinitionAvailable
        ELSE LET meanings == Get(d.data.items[1], "meanings", <<>>) IN
             IF meanings = <<>> THEN S_NoDefinitionAvailable
             ELSE LET definitions == Get(meanings[1], "definitions", <<>>) IN
                  IF definitions = <<>> THEN S_NoDefinitionAvailable
                  ELSE Truncate(Get(definitions[1], "definition", S_NoDefinitionAvailable))
    ELSE IF d.source = "wordnet" THEN
        IF d.data = <<>> THEN S_NoDefinitionAvailable
        ELSE Truncate(d.data[1].definition)
    ELSE S_NoDefinitionAvailable

\* The header both format_definition and format_detailed_definition build
\* (the same lines in each): the word, then "(WordNet)" or the phonetic and
\* the audio icon, then a blank line.
DefinitionHeader(d, word) ==
    LET base == S_HeaderOpen \o Capitalize(word) \o S_BoldClose
        mid ==
            IF d.source = "wordnet" THEN S_WordNetTag
            ELSE IF d.source = "dictionary" /\ IsList(d.data) /\ Len(d.data.items) > 0 THEN
                LET entry == d.data.items[1]
                    phonetic == EntryPhonetic(entry)
                    audio_url == FirstTruthy(Get(entry, "phonetics", <<>>), "audio")
                IN  (IF phonetic /= NoneStr THEN PhoneticSuffix(phonetic) ELSE <<>>)
                    \o (IF audio_url /= NoneStr THEN S_AudioIcon ELSE <<>>)
            ELSE <<>>
    IN  base \o mid \o S_NLNL

\* one numbered definition with its example
DefinitionLine(j, definition) ==
    IntToStr(j) \o S_DotSpace \o Get(definition, "definition", <<>>) \o S_NL
    \o (IF Has(definition, "example") /\ definition.example /= <<>>
        THEN S_ExampleLabel \o definition.example \o S_NL ELSE <<>>)

RECURSIVE DefinitionLines(_, _)
DefinitionLines(definitions, j) ==
    IF j > Len(definitions) THEN <<>>
    ELSE DefinitionLine(j, definitions[j]) \o DefinitionLines(definitions, j + 1)

\* One meaning's section: nothing unless it has a part of speech and
\* definitions; `shown` are the definitions the view lists and `limit` its cap
\* on synonyms and on antonyms.
MeaningSection(meaning, shown, limit) ==
    LET part_of_speech == Capitalize(Get(meaning, "partOfSpeech", <<>>))
        definitions == Get(meaning, "definitions", <<>>)
    IN  IF part_of_speech = <<>> \/ definitions = <<>> THEN <<>>
        ELSE S_BoldOpen \o part_of_speech \o S_BoldCloseColonNL
             \o DefinitionLines(shown, 1)
             \o (IF Has(meaning, "synonyms") /\ meaning.synonyms /= <<>>
                 THEN S_SynonymsLabel
                      \o Join(SliceTo(meaning.synonyms, limit), S_CommaSpace) \o S_NL
                 ELSE <<>>)
             \o (IF Has(meaning, "antonyms") /\ meaning.antonyms /= <<>>
                 THEN S_AntonymsLabel
                      \o Join(SliceTo(meaning.antonyms, limit), S_CommaSpace) \o S_NL
                 ELSE <<>>)
             \o S_NL

\* the closing "Listen to pronunciation" link
AudioLink(entry) ==
    LET audio_url == FirstTruthy(Get(entry, "phonetics", <<>>), "audio")
    IN  IF audio_url /= NoneStr THEN S_AudioLinkOpen \o audio_url \o S_AudioLinkClose
        ELSE <<>>

\* A basic view that lists every definition of a meaning.
BasicSections_AllDefinitions(meanings) ==
    Concat([i \in 1..Len(meanings) |->
                MeaningSection(meanings[i], Get(meanings[i], "definitions", <<>>), 5)])

RECURSIVE BasicSections(_)
BasicSections(meanings) ==
    IF meanings = <<>> THEN <<>>
    ELSE MeaningSection(Head(meanings),
                        SliceTo(Get(Head(meanings), "definitions", <<>>), 2), 5)
         \o BasicSections(Tail(meanings))

\* format_definition for the sources the handler passes it (the dictionary
\* branch, and the sources with no branch); the handler never calls it with
\* source "wordnet" (bot.py renders that source with
\* format_complete_wordnet_definition).
format_definition(d, word) ==
    IF d = None THEN NoneStr
    ELSE CASE d.source = "dictionary" ->
                IF ~IsList(d.data) \/ Len(d.data.items) = 0 THEN NoneStr
                ELSE LET entry == d.data.items[1]
                     IN  DefinitionHeader(d, word)
                         \o BasicSections(SliceTo(Get(entry, "meanings", <<>>), 3))
                         \o AudioLink(entry)
           [] d.source /= "dictionary" /\ d.source /= "wordnet" ->
                DefinitionHeader(d, word)

RECURSIVE DetailedSections(_)
DetailedSections(meanings) ==
    IF meanings = <<>> THEN <<>>
    ELSE MeaningSection(Head(meanings), Get(Head(meanings), "definitions", <<>>), 10)
         \o DetailedSections(Tail(meanings))

\* format_detailed_definition, for the same sources as format_definition
format_detailed_definition(d, word) ==
    IF d = None THEN NoneStr
    ELSE CASE d.source = "dictionary" ->
                IF ~IsList(d.data) \/ Len(d.data.items) = 0 THEN NoneStr
                ELSE LET entry == d.data.items[1]
                     IN  DefinitionHeader(d, word)
                         \o (IF Has(entry, "origin") /\ entry.origin /= <<>>
                             THEN S_EtymologyLabel \o entry.origin \o S_NLNL ELSE <<>>)
                         \o DetailedSections(Get(entry, "meanings", <<>>))
                         \o AudioLink(entry)
           [] d.source /= "dictionary" /\ d.source /= "wordnet" ->
                DefinitionHeader(d, word)

\* {"n": "Noun", ...}.get(pos, pos.upper())
PosFull(pos) ==
    CASE pos = <<"n">> -> S_Noun
      [] pos = <<"v">> -> S_Verb
      [] pos = <<"a">> -> S_Adjective
      [] pos = <<"s">> -> S_AdjectiveSatellite
      [] pos = <<"r">> -> S_Adverb
      [] OTHER -> Upper(pos)

\* the keys of pos_groups, in the order the dict received them
RECURSIVE PosOrder(_, _)
PosOrder(synsets, seen) ==
    IF synsets = <<>> THEN <<>>
    ELSE IF Head(synsets).pos \in seen THEN PosOrder(Tail(synsets), seen)
    ELSE <<Head(synsets).pos>> \o PosOrder(Tail(synsets), seen \cup {Head(synsets).pos})

\* pos_groups[pos]
RECURSIVE PosGroup(_, _)
PosGroup(synsets, pos) ==
    IF synsets = <<>> THEN <<>>
    ELSE (IF Head(synsets).pos = pos THEN <<Head(synsets)>> ELSE <<>>)
         \o PosGroup(Tail(synsets), pos)

\* [lemma.name().replace("_", " ") for lemma in lemmas if lemma.name().lower() != word.lower()]
RECURSIVE LemmaSynonyms(_, _)
LemmaSynonyms(lemmas, word) ==
    IF lemmas = <<>> THEN <<>>
    ELSE (IF Lower(Head(lemmas).name) /= Lower(word)
          THEN <<ReplaceChar(Head(lemmas).name, S_Underscore, S_Space)>> ELSE <<>>)
         \o LemmaSynonyms(Tail(lemmas), word)

\* every lemma's antonym names, underscores replaced
RECURSIVE LemmaAntonyms(_)
LemmaAntonyms(lemmas) ==
    IF lemmas = <<>> THEN <<>>
    ELSE [i \in 1..Len(Head(lemmas).antonyms) |->
              ReplaceChar(Head(lemmas).antonyms[i], S_Underscore, S_Space)]
         \o LemmaAntonyms(Tail(lemmas))

\* [h.name().split(".")[0].replace("_", " ") for h in related]
RelatedNames(related) ==
    [i \in 1..Len(related) |-> ReplaceChar(Split(related[i], ".")[1], S_Underscore, S_Space)]

\* one sense of format_complete_wordnet_definition
CompleteSense(i, synset, word) ==
    LET synonyms == LemmaSynonyms(synset.lemmas, word)
        all_antonyms == LemmaAntonyms(synset.lemmas)
    IN  IntToStr(i) \o S_DotSpace \o synset.definition \o S_NL
        \o (IF synset.examples /= <<>>
            THEN S_ExampleLabel \o synset.examples[1] \o S_NL ELSE <<>>)
        \o (IF synonyms /= <<>>
            THEN S_SynonymsLabel \o Join(SliceTo(synonyms, 7), S_CommaSpace) \o S_NL
            ELSE <<>>)
        \o (IF all_antonyms /= <<>>
            THEN S_AntonymsLabel \o Join(SliceTo(all_antonyms, 7), S_CommaSpace) \o S_NL
            ELSE <<>>)
        \o S_NL

RECURSIVE CompleteSenses(_, _, _)
CompleteSenses(synsets, i, word) ==
    IF i > Len(synsets) THEN <<>>
    ELSE CompleteSense(i, synsets[i], word) \o CompleteSenses(synsets, i + 1, word)

RECURSIVE CompleteGroups(_, _, _)
CompleteGroups(order, synsets, word) ==
    IF order = <<>> THEN <<>>
    ELSE S_BoldOpen \o PosFull(Head(order)) \o S_BoldCloseColonNL
         \o CompleteSenses(SliceTo(PosGroup(synsets, Head(order)), 3), 1, word)
         \o CompleteGroups(Tail(order), synsets, word)

format_complete_wordnet_definition(d, word) ==
    IF d = None THEN NoneStr
    ELSE IF d.source /= "wordnet" \/ d.data = <<>> THEN NoneStr
    ELSE LET noun_synsets == PosGroup(d.data, <<"n">>)
             hypernyms ==
                 IF noun_synsets = <<>> THEN <<>> ELSE RelatedNames(noun_synsets[1].hypernyms)
             hyponyms ==
                 IF noun_synsets = <<>> THEN <<>> ELSE RelatedNames(noun_synsets[1].hyponyms)
         IN  S_HeaderOpen \o Capitalize(word) \o S_WordNetHeaderClose
             \o CompleteGroups(PosOrder(d.data, {}), d.data, word)
             \o (IF hypernyms /= <<>>
                 THEN S_BroaderLabel \o Join(SliceTo(hypernyms, 5), S_CommaSpace) \o S_NL
                 ELSE <<>>)
             \o (IF hyponyms /= <<>>
                 THEN S_SpecificLabel \o Join(SliceTo(hyponyms, 5), S_CommaSpace) \o S_NL
                 ELSE <<>>)

format_brief_urban_definition(definition_data) ==
    LET definition == Get(definition_data, "definition", S_NoDefinitionAvailable)
        escaped == EscapeAngles(definition)
        unbracketed == ReplaceChar(ReplaceChar(escaped, S_LBracket, <<>>), S_RBracket, <<>>)
    IN  Truncate(unbracketed)

get_urban_word(definition_data, default_word) ==
    IF DOMAIN definition_data = {} THEN Capitalize(default_word)
    ELSE EscapeAngles(Get(definition_data, "word", default_word))

\* make_link: the hyperlink a [bracketed phrase] becomes
MakeLink(word) ==
    S_UdLinkOpen \o ReplaceChar(word, S_Space, S_Pct20) \o S_UdLinkMid \o word \o S_AClose

\* re.sub(r"\[(.*?)\]", make_link, text).  The matches are found from the
\* left: a match starts at a "[" and ends at the nearest "]" after it, with
\* no line break in between, and the search goes on after that "]".  So each
\* "]" closes the leftmost "[" that follows the previous "]" or line break.
replace_ud_links(s) ==
    LET open(i, j) == \A k \in (i + 1)..(j - 1) : s[k] /= "]" /\ s[k] /= "\n"
        closes(i, j) == s[j] = "]" /\ open(i, j)
        starts(i) == /\ s[i] = "["
                     /\ \E j \in (i + 1)..Len(s) : closes(i, j)
                     /\ ~\E k \in 1..(i - 1) : s[k] = "[" /\ open(k, i)
        end(i) == CHOOSE j \in (i + 1)..Len(s) : closes(i, j)
        inside(i) == \E k \in 1..(i - 1) : starts(k) /\ i <= end(k)
    IN  Concat([i \in 1..Len(s) |->
                    IF starts(i) THEN MakeLink(SubSeq(s, i + 1, end(i) - 1))
                    ELSE IF inside(i) THEN <<>>
                    ELSE <<s[i]>>])

\* the example's non-blank lines, each stripped and quoted
RECURSIVE ExampleLines(_)
ExampleLines(lines) ==
    IF lines = <<>> THEN <<>>
    ELSE (IF Strip(Head(lines)) /= <<>>
          THEN <<S_QuoteOpen \o Strip(Head(lines)) \o S_ItalicClose>> ELSE <<>>)
         \o ExampleLines(Tail(lines))

format_urban_definition(definition_data, word, result_id) ==
    IF DOMAIN definition_data = {} THEN NoneStr
    ELSE LET urban_word == EscapeAngles(Get(definition_data, "word", word))
             author == EscapeAngles(Get(definition_data, "author", S_Anonymous))
             linked == replace_ud_links(EscapeAngles(Get(definition_data, "definition", <<>>)))
             example == replace_ud_links(EscapeAngles(Get(definition_data, "example", <<>>)))
             definition ==
                 ReplaceChar(ReplacePair(ReplacePair(linked, S_CRNL, S_NL), S_NLNL, S_NL),
                             S_NL, S_NLNL)
             formatted_example ==
                 IF example = <<>> THEN <<>>
                 ELSE Join(ExampleLines(Split(example, "\n")), S_NL)
             permalink == Get(definition_data, "permalink", <<>>)
         IN  S_UrbanHeaderOpen \o urban_word \o S_UrbanHeaderMid \o IntToStr(result_id)
             \o S_UrbanHeaderClose
             \o definition \o S_NLNL
             \o (IF formatted_example /= <<>>
                 THEN S_UrbanExamplesLabel \o formatted_example \o S_NLNL ELSE <<>>)
             \o S_ThumbsUp \o IntToStr(Get(definition_data, "thumbs_up", 0))
             \o S_ThumbsDown \o IntToStr(Get(definition_data, "thumbs_down", 0))
             \o S_ByAuthor \o author \o S_NL
             \o (IF permalink /= <<>>
                 THEN S_PermalinkOpen \o permalink \o S_PermalinkClose ELSE <<>>)
             \o S_ZeroWidthTail

\* ------------------------------------------------------------ config.py

INLINE_RESULTS_CACHE_TIME == 86400
MAX_URBAN_RESULTS == 18

\* the literals of bot.py: the empty query's cache_time and Telegram's result limit
EmptyQueryCacheTime == 5
ResultSlots == 20

\* the values of MAX_URBAN_RESULTS the model is run with
UrbanCaps == {0, 1, MAX_URBAN_RESULTS, MaxCap}

\* ------------------------------------------------ lookup_word (aggregator)

\* requests.get(url): no timeout argument is passed, so the call has none
Request(api) == [api |-> api, timeout |-> None]

\* lookup_word from the end of its second await to its return: the try block's
\* remainder, and the except clause that turns any exception into None.
\* `synsets` is what wordnet.synsets(word) returns.
lookup_word_result(word, dict_resp, urban_resp, synsets) ==
    IF urban_resp.status_code = 200 /\ urban_resp.body = Unparsable
    THEN None   \* urban_resp.json() raised
    ELSE
    LET urban_data ==
            IF urban_resp.status_code = 200 THEN urban_resp.body ELSE None
    IN  IF dict_resp.status_code = 200 THEN
            IF dict_resp.body = Unparsable THEN None   \* response.json() raised
            ELSE [source |-> "dictionary", data |-> dict_resp.body,
                  urban_data |-> urban_data]
        ELSE IF synsets /= <<>> THEN
            [source |-> "wordnet", data |-> synsets, urban_data |-> urban_data]
        ELSE IF HasUrbanList(urban_data) THEN
            [source |-> "urban_only", data |-> None, urban_data |-> urban_data]
        ELSE None

\* An aggregator that consults the lexical database whatever the dictionary
\* answered.
lookup_word_uses_wordnet_Always(dict_resp, urban_resp) == TRUE

\* whether lookup_word reaches wordnet.synsets(word)
lookup_word_uses_wordnet(dict_resp, urban_resp) ==
    /\ ~(urban_resp.status_code = 200 /\ urban_resp.body = Unparsable)
    /\ dict_resp.status_code /= 200

\* --------------------------------------------- inline_query_handler (bot.py)

\* A handler that lower-cases the query without stripping it: whitespace-only
\* queries are no longer recognised as empty.
NormalizeQuery_NoStrip(q) == Lower(q)

\* query.query.strip().lower()
NormalizeQuery(q) == Lower(Strip(q))

\* InlineQueryResultArticle(id=, title=, description=,
\*     input_message_content=InputTextMessageContent(message_text=))
Article(id, title, description, message_text) ==
    [id |-> id, title |-> title, description |-> description,
     message_text |-> message_text]

\* InputTextMessageContent requires message_text to be a str: None is rejected
\* with a validation error
Rejected(article) == article.message_text = NoneStr

\* the title of the dictionary result
TitleWithPhonetic(d, word) ==
    LET phonetic == get_phonetic(d)
        word_title == Capitalize(word)
    IN  IF phonetic /= NoneStr
        THEN ReplacePair(word_title \o S_PhoneticOpen \o StripChars(phonetic, {"/"})
                             \o S_Slash,
                         S_SlashSlash, S_Slash)
        ELSE word_title

\* A handler that also offers a detailed rendering of exactly 1.2 times the
\* basic rendering's length.
MateriallyLarger_AtLeast(detailed_definition, basic_definition) ==
    5 * Len(detailed_definition) >= 6 * Len(basic_definition)

\* len(detailed_definition) > len(basic_definition) * 1.2: a float comparison in
\* the source, which for lengths agrees with the exact 5 * detailed > 6 * basic
MateriallyLarger(detailed_definition, basic_definition) ==
    5 * Len(detailed_definition) > 6 * Len(basic_definition)

\* the results of the `source == "dictionary"` branch
DictionaryResults(d, word) ==
    LET basic_definition == format_definition(d, word)
        detailed_definition == format_detailed_definition(d, word)
        basic == Article(S_Id1, S_TitleBook \o TitleWithPhonetic(d, word),
                         format_brief_definition(d, word), basic_definition)
        detailed == Article(S_Id2,
                            S_TitleDetailedOpen \o Capitalize(word) \o S_Apostrophe,
                            S_DetailedDescription, detailed_definition)
    IN  IF /\ detailed_definition /= NoneStr
           /\ detailed_definition /= <<>>
           /\ detailed_definition /= basic_definition
           /\ MateriallyLarger(detailed_definition, basic_definition)
        THEN <<basic, detailed>>
        ELSE <<basic>>

\* the results of the `source == "wordnet"` branch
WordNetResults(d, word) ==
    <<Article(S_Id1, S_TitleBook \o Capitalize(word) \o S_WordNetTag,
              format_brief_definition(d, word),
              format_complete_wordnet_definition(d, word))>>

\* the result of one Urban Dictionary definition, i counting from 0
UrbanResult(definition, i, word) ==
    Article(S_IdUrban \o IntToStr(i),
            S_TitleUrban \o get_urban_word(definition, word) \o S_TitleUrbanMid
                \o IntToStr(i + 1) \o S_CloseParen,
            format_brief_urban_definition(definition),
            format_urban_definition(definition, word, i + 1))

\* A handler that never shows more than eighteen slang results, whatever space
\* the primary results have left.
UrbanLimit_Eighteen(results, cap) == Min(18, cap)

\* A handler that takes the configured maximum without looking at the space the
\* primary results have left.
UrbanLimit_IgnoringSlots(results, cap) == cap

\* urban_limit = min(20 - len(results), config.MAX_URBAN_RESULTS)
UrbanLimit(results, cap) == Min(ResultSlots - Len(results), cap)

\* the results the loop over urban_definitions[:urban_limit] appends
UrbanResults(urban_data, results, word, cap) ==
    IF HasUrbanList(urban_data)
    THEN LET shown == SliceTo(urban_data.fields.list, UrbanLimit(results, cap))
         IN  [i \in 1..Len(shown) |-> UrbanResult(shown[i], i - 1, word)]
    ELSE <<>>

\* A handler that answers a word found nowhere with an empty list.
NotFoundResults_Empty(word) == <<>>

NotFoundResults(word) ==
    <<Article(S_IdNotFound, S_TitleNotFound,
              S_NotFoundDescOpen \o word \o S_Apostrophe,
              S_NotFoundBodyOpen \o word \o S_BoldClose)>>

\* A handler that puts the slang results first.
BuildResults_SlangFirst(d, word, cap) ==
    IF d = None THEN NotFoundResults(word)
    ELSE LET primary ==
                 CASE d.source = "dictionary" -> DictionaryResults(d, word)
                   [] d.source = "wordnet" -> WordNetResults(d, word)
                   [] OTHER -> <<>>
         IN  UrbanResults(d.urban_data, primary, word, cap) \o primary

\* the result list the handler builds from lookup_word's return value
BuildResults(d, word, cap) ==
    IF d = None THEN NotFoundResults(word)
    ELSE LET primary ==
                 CASE d.source = "dictionary" -> DictionaryResults(d, word)
                   [] d.source = "wordnet" -> WordNetResults(d, word)
                   [] OTHER -> <<>>
         IN  primary \o UrbanResults(d.urban_data, primary, word, cap)

\* ---------------------------------------------------------------- inputs

\* a text of n characters
Filler(n) == [i \in 1..n |-> "x"]

\* a long query: Telegram delivers up to 256 characters
LongQuery == Filler(MaxQueryLen)

\* query.query as Telegram delivers it
RawQueries ==
    { <<>>, <<" ", " ">>, <<" ", "A">>, <<"A", "b", " ">>, <<"b">>, LongQuery }

\* The dictionary API's entries the model answers with.
\* One meaning, one definition: the detailed view equals the basic view.
EntryPlain ==
    [meanings |-> <<[partOfSpeech |-> <<"n", "o", "u", "n">>,
                     definitions |-> <<[definition |-> <<"a", " ", "b">>]>>]>>]

\* Three definitions of 3, 3 and 4 characters: for the one-letter word the
\* detailed view is 48 characters and the basic view 40, exactly 1.2 times.
EntryExact ==
    [meanings |-> <<[partOfSpeech |-> <<"n", "o", "u", "n">>,
                     definitions |-> <<[definition |-> <<"a", "b", "c">>],
                                       [definition |-> <<"d", "e", "f">>],
                                       [definition |-> <<"g", "h", "i", "j">>]>>]>>]

\* Four meanings (one without a part of speech), phonetics with audio, an
\* etymology, examples, synonyms and antonyms, and markup in the free text.
EntryRich ==
    [phonetic |-> <<"/", "e", "/">>,
     phonetics |-> <<[text |-> <<"/", "e", "/">>],
                     [text |-> <<"/", "i", "/">>, audio |-> <<"u", ".", "m", "p", "3">>]>>,
     origin |-> <<"o", "l", "d">>,
     meanings |->
        <<[partOfSpeech |-> <<"n", "o", "u", "n">>,
           definitions |-> <<[definition |-> <<"a", "<", "b">>, example |-> <<"e", "x">>],
                             [definition |-> <<"c">>],
                             [definition |-> <<"d">>]>>,
           synonyms |-> <<<<"s", "1">>, <<"s", "2">>, <<"s", "3">>, <<"s", "4">>,
                          <<"s", "5">>, <<"s", "6">>>>,
           antonyms |-> <<<<"t">>>>],
          [partOfSpeech |-> <<"v", "e", "r", "b">>,
           definitions |-> <<[definition |-> <<"f">>]>>,
           synonyms |-> <<>>, antonyms |-> <<>>],
          [partOfSpeech |-> <<>>,
           definitions |-> <<[definition |-> <<"g">>]>>],
          [partOfSpeech |-> <<"a", "d", "v", "e", "r", "b">>,
           definitions |-> <<[definition |-> <<"h">>]>>]>>]

\* Four meanings, each with a part of speech and definitions; the first has
\* three definitions and its first definition is longer than 100 characters.
EntryLong ==
    [meanings |->
        <<[partOfSpeech |-> <<"n", "o", "u", "n">>,
           definitions |-> <<[definition |-> Filler(MaxDefinitionLen)],
                             [definition |-> <<"c">>],
                             [definition |-> <<"d">>]>>],
          [partOfSpeech |-> <<"v", "e", "r", "b">>,
           definitions |-> <<[definition |-> <<"f">>]>>],
          [partOfSpeech |-> <<"a", "d", "j", "e", "c", "t", "i", "v", "e">>,
           definitions |-> <<[definition |-> <<"g">>]>>],
          [partOfSpeech |-> <<"a", "d", "v", "e", "r", "b">>,
           definitions |-> <<[definition |-> <<"h">>]>>]>>]

\* One definition one character shorter than EntryLong's first.
EntryHundred ==
    [meanings |-> <<[partOfSpeech |-> <<"n", "o", "u", "n">>,
                     definitions |-> <<[definition |-> Filler(MaxDefinitionLen - 1)]>>]>>]

\* A meaning without definitions.
EntryBare ==
    [meanings |-> <<[partOfSpeech |-> <<"n", "o", "u", "n">>, definitions |-> <<>>]>>]

\* response.status_code and the body response.json() parses
DictResponses ==
    { [status_code |-> 404, body |-> JDict([title |-> <<"n", "o">>])],
      [status_code |-> 200, body |-> Unparsable],
      [status_code |-> 200, body |-> JDict([message |-> <<"o", "k">>])],
      [status_code |-> 200, body |-> JList(<<>>)],
      [status_code |-> 200, body |-> JList(<<EntryPlain>>)],
      [status_code |-> 200, body |-> JList(<<EntryExact>>)],
      [status_code |-> 200, body |-> JList(<<EntryRich>>)],
      [status_code |-> 200, body |-> JList(<<EntryLong>>)],
      [status_code |-> 200, body |-> JList(<<EntryHundred>>)],
      [status_code |-> 200, body |-> JList(<<EntryBare>>)] }

\* The i-th definition of the slang API's list: the first carries brackets,
\* markup and every field, the second next to none, the others their rank.
UrbanEntry(i) ==
    IF i = 1 THEN
        [word |-> <<"A", "<", "b">>,
         definition |-> <<"a", " ", "[", "b", " ", "c", "]", "\n", "<", "i", ">">>,
         example |-> <<" ", "[", "x", "]", "\n", "\n", "y", ">">>,
         thumbs_up |-> 12, thumbs_down |-> 3,
         author |-> <<"m", "<", "e">>,
         permalink |-> <<"h", ":", "/", "/", "u">>]
    ELSE IF i = 2 THEN [thumbs_down |-> 2]
    ELSE [definition |-> <<"d">>, thumbs_up |-> i]

UrbanList(n) == [i \in 1..n |-> UrbanEntry(i)]

\* how many definitions the slang API returns
SlangSizes == {0, 1, 2, MaxSlang - 3, MaxSlang - 2, MaxSlang}

UrbanResponses ==
    { [status_code |-> 200, body |-> JDict([list |-> UrbanList(n)])] : n \in SlangSizes }
    \cup { [status_code |-> 500, body |-> Unparsable],
           [status_code |-> 200, body |-> Unparsable],
           [status_code |-> 200, body |-> JDict([error |-> <<"e">>])] }

\* The lexical database, a fixed local resource: wordnet.synsets(word).
\* It knows "ab" in two senses, a noun and a verb, "b" in one sense whose
\* definition is longer than 100 characters, and no other word.
SynsetNoun ==
    [pos |-> <<"n">>, definition |-> <<"l", "e", "t", "t", "e", "r", "s">>,
     examples |-> <<<<"a", "n", " ", "a", "b">>, <<"t", "w", "o">>>>,
     lemmas |-> <<[name |-> <<"a", "b">>, antonyms |-> <<>>],
                  [name |-> <<"a", "_", "b">>, antonyms |-> <<<<"b", "_", "a">>>>]>>,
     hypernyms |-> <<<<"w", "_", "x", ".", "n", ".", "0", "1">>>>,
     hyponyms |-> <<>>]
SynsetVerb ==
    [pos |-> <<"v">>, definition |-> <<"s", "p", "e", "l", "l">>,
     examples |-> <<>>,
     lemmas |-> <<[name |-> <<"A", "b">>, antonyms |-> <<>>]>>,
     hypernyms |-> <<>>, hyponyms |-> <<>>]

SynsetLong ==
    [pos |-> <<"s">>, definition |-> Filler(MaxDefinitionLen),
     examples |-> <<>>,
     lemmas |-> <<[name |-> <<"b">>, antonyms |-> <<>>]>>,
     hypernyms |-> <<>>, hyponyms |-> <<>>]

WordNetSynsets(word) ==
    IF word = <<"a", "b">> THEN <<SynsetNoun, SynsetVerb>>
    ELSE IF word = <<"b">> THEN <<SynsetLong>>
    ELSE <<>>

\* ------------------------------------------------------------ the handler

Init ==
    /\ maxUrbanResults \in UrbanCaps
    /\ pc = "idle"
    /\ query = NoneStr
    /\ text = NoneStr
    /\ latest = NoneStr
    /\ newer = 0
    /\ stale = FALSE
    /\ pending = None
    /\ response = None
    /\ urban_response = None
    /\ trace = <<>>
    /\ data = None
    /\ outcome = "running"
    /\ answer = None

\* The rest of the handler once lookup_word has returned d: the result list is
\* built and passed to query.answer, unless building an article raised, and
\* then the exception leaves the handler (it has no try block) and nothing is
\* answered.
Finish(d) ==
    \E results \in {BuildResults(d, text, maxUrbanResults)} :
        /\ data' = d
        /\ pc' = "done"
        /\ pending' = None
        /\ IF \E i \in 1..Len(results) : Rejected(results[i])
           THEN outcome' = "raised" /\ answer' = None
           ELSE /\ outcome' = "answered"
                /\ answer' = [results |-> results,
                              cache_time |-> INLINE_RESULTS_CACHE_TIME]

\* The dispatcher calls the handler with an inline query: it runs to its first
\* await, the answer to an empty query or the debounce sleep.
Dispatch(q) ==
    /\ pc = "idle"
    /\ query' = q
    /\ latest' = q
    /\ text' = NormalizeQuery(q)
    /\ IF text' = <<>>
       THEN /\ pc' = "done"
            /\ outcome' = "answered"
            /\ answer' = [results |-> <<>>, cache_time |-> EmptyQueryCacheTime]
       ELSE /\ pc' = "sleep"
            /\ UNCHANGED <<outcome, answer>>
    /\ UNCHANGED <<maxUrbanResults, newer, stale, pending, response, urban_response,
                   trace, data>>

\* The user goes on typing: Telegram delivers a newer inline query, a new
\* InlineQuery object handled by another invocation.  This handler's `query`
\* is the object it was called with and does not change.
NewerQuery(q) ==
    /\ pc /= "idle"
    /\ newer < MaxNewerQueries
    /\ q /= latest
    /\ latest' = q
    /\ newer' = newer + 1
    /\ stale' = (stale \/ (pc = "sleep" /\ NormalizeQuery(q) /= text))
    /\ UNCHANGED <<maxUrbanResults, pc, query, text, pending, response, urban_response,
                   trace, data, outcome, answer>>

\* asyncio.sleep returns: the handler compares `text` with its query's text
\* again and either returns or enters lookup_word, which hands the dictionary
\* request to the executor and awaits it.
WakeUp ==
    /\ pc = "sleep"
    /\ IF text /= NormalizeQuery(query)
       THEN /\ pc' = "done"
            /\ outcome' = "abandoned"
            /\ UNCHANGED <<pending, trace>>
       ELSE /\ pc' = "dict_wait"
            /\ pending' = Request("dictionary")
            /\ trace' = Append(trace, "dictionary_call")
            /\ UNCHANGED outcome
    /\ UNCHANGED <<maxUrbanResults, query, text, latest, newer, stale, response,
                   urban_response, data, answer>>

\* The dictionary API answers: lookup_word keeps the response and awaits the
\* slang request.
DictResponds(r) ==
    /\ pc = "dict_wait"
    /\ response' = r
    /\ pc' = "urban_wait"
    /\ pending' = Request("urban")
    /\ trace' = trace \o <<"dictionary_return", "urban_call">>
    /\ UNCHANGED <<maxUrbanResults, query, text, latest, newer, stale, urban_response,
                   data, outcome, answer>>

\* requests.get raises for the dictionary request (connection error, timeout
\* of the transport): the except clause returns None and the handler goes on.
DictRaises ==
    /\ pc = "dict_wait"
    /\ trace' = Append(trace, "dictionary_raise")
    /\ Finish(None)
    /\ UNCHANGED <<maxUrbanResults, query, text, latest, newer, stale, response,
                   urban_response>>

\* The slang API answers: lookup_word runs to its return and the handler to
\* its end, with no await in between but query.answer.
UrbanResponds(r) ==
    /\ pc = "urban_wait"
    /\ urban_response' = r
    /\ trace' = trace \o <<"urban_return">>
                \o (IF lookup_word_uses_wordnet(response, r)
                    THEN <<"wordnet_call">> ELSE <<>>)
    /\ \E d \in {lookup_word_result(text, response, r, WordNetSynsets(text))} : Finish(d)
    /\ UNCHANGED <<maxUrbanResults, query, text, latest, newer, stale, response>>

\* requests.get raises for the slang request
UrbanRaises ==
    /\ pc = "urban_wait"
    /\ trace' = Append(trace, "urban_raise")
    /\ Finish(None)
    /\ UNCHANGED <<maxUrbanResults, query, text, latest, newer, stale, response,
                   urban_response>>

Next ==
    \/ \E q \in RawQueries : Dispatch(q)
    \/ \E q \in RawQueries : NewerQuery(q)
    \/ WakeUp
    \/ \E r \in DictResponses : DictResponds(r)
    \/ DictRaises
    \/ \E r \in UrbanResponses : UrbanResponds(r)
    \/ UrbanRaises

Spec == Init /\ [][Next]_vars

\* The event loop resumes a handler whose sleep has ended; nothing makes an
\* upstream API answer.
FairSpec == Spec /\ WF_vars(WakeUp)

\* ------------------------------------------------------------ properties

\* what the handler's own run has recorded
Count(ev) == Cardinality({i \in DOMAIN trace : trace[i] = ev})
LookupReturned == pc = "done" /\ Count("dictionary_call") = 1
DictionaryRaised == Count("dictionary_raise") = 1
UrbanRaised == Count("urban_raise") = 1
UrbanReturned == Count("urban_return") = 1

\* the dictionary API answered 200 with a body that parses
DictionarySucceeded ==
    /\ response /= None
    /\ response.status_code = 200
    /\ response.body /= Unparsable

\* the slang API answered 200 with a body that parses and holds entries
SlangSucceeded ==
    /\ UrbanReturned
    /\ urban_response.status_code = 200
    /\ urban_response.body /= Unparsable
    /\ HasUrbanList(urban_response.body)

\* the tag of lookup_word's return value
Tag(d) == IF d = None THEN "none" ELSE d.source

\* the tag the priority chain of the specification selects
ExpectedTag ==
    IF DictionarySucceeded THEN "dictionary"
    ELSE IF WordNetSynsets(text) /= <<>> THEN "wordnet"
    ELSE IF SlangSucceeded THEN "urban_only"
    ELSE "none"

PrimaryEntries(results) ==
    {i \in DOMAIN results : results[i].id \in {S_Id1, S_Id2}}
HasDetailed(results) == \E i \in DOMAIN results : results[i].id = S_Id2
IsBlank(q) == \A i \in DOMAIN q : q[i] \in Whitespace

\* C1: once lookup_word has returned, its outcome is the one the strict
\* priority selects (dictionary if the dictionary call succeeded, else wordnet
\* if the lexical database has senses, else urban_only if slang entries were
\* returned, else nothing), and a dictionary or wordnet outcome carries the
\* slang entries whenever the slang call returned them.
C1_StrictPriority ==
    LookupReturned =>
        /\ Tag(data) = ExpectedTag
        /\ (Tag(data) \in {"dictionary", "wordnet"} /\ SlangSucceeded)
               => data.urban_data = urban_response.body

\* C2: an answer never holds more than 20 results, whatever the configured
\* slang maximum and however many slang entries were returned.
C2_AtMostTwentyResults ==
    outcome = "answered" => Len(answer.results) <= 20

\* C2 (reached): two primary results, a configured maximum above the eighteen
\* places left, more slang entries than places, and an answer of exactly 20.
C2_FullAnswer ==
    /\ outcome = "answered"
    /\ Cardinality(PrimaryEntries(answer.results)) = 2
    /\ maxUrbanResults > 18
    /\ SlangSucceeded
    /\ Len(urban_response.body.fields.list) > 18
    /\ Len(answer.results) = 20
    /\ answer.results[20].id = S_IdUrban \o IntToStr(17)

\* C3: a handler whose query was superseded by a different query during the
\* debounce sleep calls no lookup adapter and sends no answer.
C3_StaleHandlerAbandons ==
    stale => trace = <<>> /\ pending = None /\ answer = None

\* C4: a handler whose query is empty or only whitespace has answered with an
\* empty result list and cache time 5, and has neither slept nor called any
\* lookup adapter.
C4_EmptyQueryAnswered ==
    (pc /= "idle" /\ IsBlank(query)) =>
        /\ pc = "done"
        /\ outcome = "answered"
        /\ answer = [results |-> <<>>, cache_time |-> 5]
        /\ trace = <<>>
        /\ pending = None
        /\ data = None

\* C4 (reached): a query of two spaces has been answered with the empty list.
C4_WhitespaceQueryAnswered ==
    /\ query = <<" ", " ">>
    /\ pc = "done"
    /\ outcome = "answered"
    /\ answer.results = <<>>
    /\ answer.cache_time = 5

\* C5: when the dictionary call raised and the lexical database has senses for
\* the word, the outcome is tagged wordnet and the answer's primary result is
\* the WordNet one.
C5_DictionaryFailureFallsBack ==
    (LookupReturned /\ DictionaryRaised /\ WordNetSynsets(text) /= <<>>) =>
        /\ Tag(data) = "wordnet"
        /\ outcome = "answered"
        /\ answer.results[1].id = S_Id1

\* the slang call raised, or answered 200 with a body that does not parse
SlangFailed ==
    \/ UrbanRaised
    \/ /\ UrbanReturned
       /\ urban_response.status_code = 200
       /\ urban_response.body = Unparsable

\* what lookup_word returns for the same dictionary response when the slang API
\* answers with no entries
OutcomeWithoutSlang ==
    lookup_word_result(text, response,
                       [status_code |-> 200, body |-> JDict([list |-> <<>>])],
                       WordNetSynsets(text))

\* C6: a failed slang call is confined to the slang source: lookup_word returns
\* the outcome it returns when the slang API has no entries, with the same tag
\* and the same primary payload.
C6_SlangFailureConfined ==
    (LookupReturned /\ SlangFailed) =>
        /\ Tag(data) = Tag(OutcomeWithoutSlang)
        /\ Tag(data) = "dictionary" => data.data = response.body

\* C7: no exception leaves the handler: every handler of a query that was not
\* superseded has, once finished, answered its query.
C7_NoExceptionEscapes ==
    (pc = "done" /\ ~stale) => outcome = "answered"

\* C8: every adapter call in flight is bounded by a timeout.
C8_CallsAreBounded ==
    pending /= None => pending.timeout /= None

\* C8, as progress: an aggregation that has started eventually completes.
C8_AggregationCompletes ==
    (pc = "dict_wait") ~> (pc = "done")

\* C9: every aggregation that has returned invoked the slang lookup exactly
\* once.
C9_SlangInvokedOnce ==
    LookupReturned => Count("urban_call") = 1

C10_DetailedIncluded ==
    /\ outcome = "answered"
    /\ Tag(data) = "dictionary"
    /\ HasDetailed(answer.results)


\* the slang entries of lookup_word's return value
SlangEntries(d) ==
    IF d /= None /\ HasUrbanList(d.urban_data) THEN d.urban_data.fields.list ELSE <<>>

SlangResults(results) ==
    {i \in DOMAIN results : SubSeq(results[i].id, 1, Len(S_IdUrban)) = S_IdUrban}
HasNotFound(results) == \E i \in DOMAIN results : results[i].id = S_IdNotFound

\* C11, as stated: an urban_only outcome with n slang entries is answered with
\* no primary result, no "not found" result and exactly min(n, 18, configured
\* maximum) slang results.
C11_SlangOnlyEighteen ==
    (outcome = "answered" /\ Tag(data) = "urban_only") =>
        LET results == answer.results
            n == Len(SlangEntries(data))
        IN  /\ PrimaryEntries(results) = {}
            /\ ~HasNotFound(results)
            /\ Cardinality(SlangResults(results)) = Min(n, Min(18, maxUrbanResults))
            /\ Len(results) <= 20

\* C11, amended: an urban_only outcome with n slang entries is answered with no
\* primary result, no "not found" result and exactly min(n, 20, configured
\* maximum) slang results, which is min(n, 18) for the shipped maximum of 18.
C11_SlangOnlyFillsTheList ==
    (outcome = "answered" /\ Tag(data) = "urban_only") =>
        LET results == answer.results
            n == Len(SlangEntries(data))
        IN  /\ PrimaryEntries(results) = {}
            /\ ~HasNotFound(results)
            /\ SlangResults(results) = DOMAIN results
            /\ Len(results) = Min(n, Min(20, maxUrbanResults))
            /\ (maxUrbanResults = MAX_URBAN_RESULTS => Len(results) = Min(n, 18))
            /\ Len(results) <= 20

\* C11 (reached): nothing in the dictionary or the lexical database, 21 slang
\* entries and a configured maximum of 20: twenty slang results.
C11_TwentySlangResults ==
    /\ outcome = "answered"
    /\ Tag(data) = "urban_only"
    /\ Len(SlangEntries(data)) > 20
    /\ maxUrbanResults >= 20
    /\ Len(answer.results) = 20
    /\ SlangResults(answer.results) = 1..20

\* C12: when the dictionary answered without success, the lexical database has
\* no sense and the slang API returned no entries, the handler answers with
\* exactly the "not found" result and the configured cache time of one day;
\* and in no answer does the "not found" result stand beside another result.
C12_NothingFoundAnswer ==
    /\ (/\ LookupReturned
        /\ UrbanReturned
        /\ response.status_code /= 200
        /\ WordNetSynsets(text) = <<>>
        /\ ~SlangSucceeded)
           => /\ outcome = "answered"
              /\ Len(answer.results) = 1
              /\ answer.results[1].id = S_IdNotFound
              /\ answer.cache_time = 86400
    /\ (outcome = "answered" /\ HasNotFound(answer.results))
           => Len(answer.results) = 1

\* C12 (reached): "a", unknown to the dictionary (404) and to the lexical
\* database, with an empty slang list, is answered with the "not found" result.
C12_NotFoundAnswered ==
    /\ text = <<"a">>
    /\ UrbanReturned
    /\ response.status_code = 404
    /\ urban_response.status_code = 200
    /\ urban_response.body = JDict([list |-> <<>>])
    /\ outcome = "answered"
    /\ Len(answer.results) = 1
    /\ answer.results[1].id = S_IdNotFound
    /\ answer.cache_time = 86400

\* the dictionary API answered 200 with a body that parses but is not a
\* non-empty list of entries
DictionaryMalformed ==
    /\ response /= None
    /\ response.status_code = 200
    /\ response.body /= Unparsable
    /\ ~(IsList(response.body) /\ response.body.items /= <<>>)

\* C13: a success status with a body of unexpected shape counts as "not found"
\* for the dictionary: the outcome is the one the lexical database and the
\* slang entries select, and the handler builds no dictionary result with a
\* missing body.
C13_MalformedDictionaryFallsThrough ==
    (LookupReturned /\ UrbanReturned /\ ~SlangFailed /\ DictionaryMalformed) =>
        /\ Tag(data) = (IF WordNetSynsets(text) /= <<>> THEN "wordnet"
                        ELSE IF SlangSucceeded THEN "urban_only"
                        ELSE "none")
        /\ outcome = "answered"

\* the first definition of the first meaning (dictionary) or of the first sense
\* (wordnet) of a lookup outcome; NoneStr when there is none
FirstDefinition(d) ==
    IF d.source = "wordnet" THEN d.data[1].definition
    ELSE LET meanings == Get(d.data.items[1], "meanings", <<>>)
         IN  IF meanings = <<>> THEN NoneStr
             ELSE LET definitions == Get(meanings[1], "definitions", <<>>)
                  IN  IF definitions = <<>> THEN NoneStr
                      ELSE Get(definitions[1], "definition", NoneStr)

\* C14: the brief rendering of a dictionary or wordnet outcome, the description
\* of the first result, is at most 100 characters: the first definition
\* unchanged when it has at most 100 characters, its first 97 characters and
\* "..." when it is longer, and "No definition available" when there is none.
C14_BriefAtMostHundred ==
    (outcome = "answered" /\ Tag(data) \in {"dictionary", "wordnet"}) =>
        LET brief == answer.results[1].description
            first == FirstDefinition(data)
        IN  /\ Len(brief) <= 100
            /\ IF first = NoneStr THEN brief = S_NoDefinitionAvailable
               ELSE IF Len(first) > 100
                    THEN brief = SubSeq(first, 1, 97) \o <<".", ".", ".">>
                    ELSE brief = first

\* C14 (reached): a dictionary entry whose first definition has more than 100
\* characters is described by 100 characters ending in "...".
C14_LongDefinitionTruncated ==
    /\ outcome = "answered"
    /\ Tag(data) = "dictionary"
    /\ FirstDefinition(data) /= NoneStr
    /\ Len(FirstDefinition(data)) > 100
    /\ Len(answer.results[1].description) = 100
    /\ SubSeq(answer.results[1].description, 98, 100) = <<".", ".", ".">>

\* C14 (also reached): the same for a wordnet outcome, for a first definition
\* of exactly 100 characters, left unchanged, and for an entry with none.
C14_LongSenseTruncated ==
    /\ outcome = "answered"
    /\ Tag(data) = "wordnet"
    /\ Len(FirstDefinition(data)) > 100
    /\ Len(answer.results[1].description) = 100
C14_HundredUnchanged ==
    /\ outcome = "answered"
    /\ Tag(data) = "dictionary"
    /\ FirstDefinition(data) /= NoneStr
    /\ Len(FirstDefinition(data)) = 100
    /\ answer.results[1].description = FirstDefinition(data)
C14_NoDefinition ==
    /\ outcome = "answered"
    /\ Tag(data) = "dictionary"
    /\ FirstDefinition(data) = NoneStr
    /\ answer.results[1].description = S_NoDefinitionAvailable

\* C15: every result of every answer has a description of at most 100
\* characters.
C15_DescriptionsAtMostHundred ==
    outcome = "answered" =>
        \A i \in DOMAIN answer.results : Len(answer.results[i].description) <= 100

\* C16: in the body of every result, each "<" opens and each ">" closes one of
\* the tags the renderers themselves write (<b>, </b>, <i>, </i>, <a href=...>,
\* </a>); a "<" or ">" of the query text or of the APIs' free text is there
\* only as &lt; or &gt;.
C16_FreeTextEscaped ==
    outcome = "answered" =>
        \A r \in DOMAIN answer.results :
            LET body == answer.results[r].message_text
                tags == {S_BoldOpen, S_BoldClose, <<"<", "i", ">">>, S_ItalicClose,
                         S_AClose, <<"<", "a", " ", "h", "r", "e", "f", "=">>}
                closed == {S_BoldOpen, S_BoldClose, <<"<", "i", ">">>, S_ItalicClose,
                           S_AClose, <<"'", ">">>, <<"\"", ">">>}
                opens(i) == \E t \in tags :
                                /\ i + Len(t) - 1 <= Len(body)
                                /\ SubSeq(body, i, i + Len(t) - 1) = t
                closes(i) == \E t \in closed :
                                 /\ i - Len(t) + 1 >= 1
                                 /\ SubSeq(body, i - Len(t) + 1, i) = t
            IN  \A i \in DOMAIN body :
                    /\ body[i] = "<" => opens(i)
                    /\ body[i] = ">" => closes(i)

\* The meaning sections read back from a rendered view: a section starts with
\* "<b>Heading</b>:" and a line break, and its definitions are the lines that
\* start with a number, a full stop and a space.
SectionEnds(body) ==
    {i \in 1..(Len(body) - 5) : SubSeq(body, i, i + 5) = S_BoldCloseColonNL}
SectionEnd(body, k) ==
    CHOOSE i \in SectionEnds(body) :
        Cardinality({j \in SectionEnds(body) : j < i}) = k - 1
SectionHeading(body, k) ==
    LET e == SectionEnd(body, k)
        b == CHOOSE q \in 1..(e - 3) :
                 /\ SubSeq(body, q, q + 2) = S_BoldOpen
                 /\ \A p \in (q + 1)..(e - 3) : SubSeq(body, p, p + 2) /= S_BoldOpen
    IN  SubSeq(body, b + 3, e - 1)
SectionHeadings(body) ==
    [k \in 1..Cardinality(SectionEnds(body)) |-> SectionHeading(body, k)]
SectionDefinitions(body, k) ==
    LET from == SectionEnd(body, k) + 5
        to == IF k < Cardinality(SectionEnds(body))
              THEN SectionEnd(body, k + 1) ELSE Len(body)
    IN  Cardinality({i \in from..(to - 3) :
                        /\ body[i] = "\n"
                        /\ \E d \in 1..10 : body[i + 1] = Digits[d]
                        /\ body[i + 2] = "."
                        /\ body[i + 3] = " "})

\* the meanings of the first entry of a dictionary outcome
Meanings(d) == Get(d.data.items[1], "meanings", <<>>)
\* a meaning the views render: it has a part of speech and definitions
Renderable(meaning) ==
    /\ Get(meaning, "partOfSpeech", <<>>) /= <<>>
    /\ Get(meaning, "definitions", <<>>) /= <<>>

\* C17, as stated: the basic view of an entry with m meanings has exactly
\* min(m, 3) sections, those of the first meanings in source order, each with
\* at most 2 definitions.
C17_FirstThreeMeanings ==
    (outcome = "answered" /\ Tag(data) = "dictionary") =>
        LET body == answer.results[1].message_text
            meanings == Meanings(data)
        IN  /\ Len(SectionHeadings(body)) = Min(Len(meanings), 3)
            /\ \A k \in DOMAIN SectionHeadings(body) :
                   /\ SectionHeadings(body)[k] = Capitalize(meanings[k].partOfSpeech)
                   /\ SectionDefinitions(body, k) <= 2

\* C17, amended: the basic view has one section for each of the first
\* min(m, 3) meanings that has a part of speech and at least one definition,
\* in source order, with the first two definitions of that meaning at most;
\* when the first min(m, 3) meanings all have both, that is exactly min(m, 3)
\* sections.
C17_FirstThreeRenderableMeanings ==
    (outcome = "answered" /\ Tag(data) = "dictionary") =>
        LET body == answer.results[1].message_text
            meanings == SliceTo(Meanings(data), 3)
            shown == {k \in DOMAIN meanings : Renderable(meanings[k])}
            nth(k) == CHOOSE i \in shown : Cardinality({j \in shown : j < i}) = k - 1
        IN  /\ Len(SectionHeadings(body)) = Cardinality(shown)
            /\ \A k \in DOMAIN SectionHeadings(body) :
                   /\ SectionHeadings(body)[k] = Capitalize(meanings[nth(k)].partOfSpeech)
                   /\ SectionDefinitions(body, k) = Min(2, Len(meanings[nth(k)].definitions))
            /\ (shown = DOMAIN meanings)
                   => Len(SectionHeadings(body)) = Min(Len(Meanings(data)), 3)

\* C17 (reached): an entry with four renderable meanings, the first with three
\* definitions, is shown with exactly three sections, the first with two
\* definitions.
C17_FourMeaningsThreeShown ==
    /\ outcome = "answered"
    /\ Tag(data) = "dictionary"
    /\ Len(Meanings(data)) = 4
    /\ \A k \in 1..4 : Renderable(Meanings(data)[k])
    /\ Len(Meanings(data)[1].definitions) = 3
    /\ Len(SectionHeadings(answer.results[1].message_text)) = 3
    /\ SectionDefinitions(answer.results[1].message_text, 1) = 2

\* C18: in every answer the primary results come first, the basic one before
\* the detailed one, and the slang results follow as a prefix of the slang
\* list in its order: the i-th slang result is the i-th entry, ranked i, and
\* there are min(entries, 20 - primary results, configured maximum) of them.
C18_PrimaryThenSlangInOrder ==
    (outcome = "answered" /\ data /= None) =>
        LET results == answer.results
            k == Cardinality(PrimaryEntries(results))
            list == SlangEntries(data)
            taken == Min(Len(list), Min(20 - k, maxUrbanResults))
        IN  /\ PrimaryEntries(results) = 1..k
            /\ k >= 1 => results[1].id = S_Id1
            /\ k = 2 => results[2].id = S_Id2
            /\ Len(results) = k + taken
            /\ \A i \in 1..taken :
                   /\ results[k + i].id = S_IdUrban \o IntToStr(i - 1)
                   /\ results[k + i].title =
                          S_TitleUrban \o get_urban_word(list[i], text)
                              \o S_TitleUrbanMid \o IntToStr(i) \o S_CloseParen
                   /\ results[k + i].description = format_brief_urban_definition(list[i])
                   /\ results[k + i].message_text = format_urban_definition(list[i], text, i)

\* C18 (reached): a basic and a detailed result followed by the first eighteen
\* of more than eighteen slang entries.
C18_TwoPrimaryEighteenSlang ==
    /\ outcome = "answered"
    /\ Tag(data) = "dictionary"
    /\ Len(SlangEntries(data)) > 18
    /\ Len(answer.results) = 20
    /\ answer.results[1].id = S_Id1
    /\ answer.results[2].id = S_Id2
    /\ \A i \in 1..18 : answer.results[2 + i].id = S_IdUrban \o IntToStr(i - 1)
    /\ answer.results[3].message_text /= answer.results[4].message_text

\* C19: the lexical database is consulted only after the dictionary call has
\* returned, and only when it returned without success (a status other than
\* 200); never before, and never after a success.
C19_LexicalOnlyAfterDictionaryFailure ==
    \A i \in DOMAIN trace :
        trace[i] = "wordnet_call" =>
            /\ \E j \in 1..(i - 1) : trace[j] = "dictionary_return"
            /\ response /= None
            /\ response.status_code /= 200

\* C19 (reached): the dictionary answered 404 and the lexical database was
\* consulted, once, after the answer.
C19_LexicalConsulted ==
    /\ pc = "done"
    /\ response /= None
    /\ response.status_code = 404
    /\ Count("wordnet_call") = 1
    /\ trace[Len(trace)] = "wordnet_call"
    /\ trace[2] = "dictionary_return"

=============================================================================
